---- MODULE Spec2Model ----
(***************************************************************************)
(* The OAuth2 PKCE login flow of server.py: the process-global PKCE pair   *)
(* and OAuth client, the per-browser Flask sessions, and the four request  *)
(* handlers (/, /start, /oauth/callback, /playground).  A request is       *)
(* handled in one step: the handlers are synchronous and block on their    *)
(* outbound calls.                                                         *)
(***************************************************************************)
EXTENDS Integers, Sequences, FiniteSets, TLC

(***************************************************************************)
(* Bounds of the model.                                                    *)
(***************************************************************************)
\* number of browser sessions (signed session cookies) talking to the process
NumSessions == 2

Sessions == 1..NumSessions

\* the outcomes of os.urandom(30) the process may start with, by number
Seeds == {1, 2}

\* values oauthlib's generate_token() may return as `state`
StateTokens == {"state1", "state2"}

\* values of the redirect_url query parameter of /start
Targets == {"/", "/playground"}

\* values of the code query parameter of /oauth/callback
Codes == {"code1"}

\* access tokens the provider's token endpoint may issue
AccessTokens == {"at1", "at2"}

\* answers of the provider's token endpoint to one exchange: it rejects the
\* code/verifier pair, or it issues a token
TokenAnswers == {[error |-> "invalid_grant"]} \cup {[access_token |-> at] : at \in AccessTokens}

\* answers of the provider's API to one authenticated call: a 200 with a data
\* object, a 4xx/5xx with a JSON error body, a 5xx whose body is not JSON
ApiAnswers == {"ok", "http_error_json", "http_error_not_json"}

(***************************************************************************)
(* Python dictionaries (the Flask session, request.args) as functions on   *)
(* the set of keys present.                                                *)
(***************************************************************************)
EmptyDict == <<>>

DictHas(d, k) == k \in DOMAIN d

DictGet(d, k, default) == IF k \in DOMAIN d THEN d[k] ELSE default

DictSet(d, k, v) == [x \in (DOMAIN d) \cup {k} |-> IF x = k THEN v ELSE d[x]]

DictPop(d, k) == [x \in (DOMAIN d) \ {k} |-> d[x]]

(***************************************************************************)
(* Configuration: environment values and the fixed provider endpoints.     *)
(***************************************************************************)
client_id == "CLIENT_ID"
client_secret == "CLIENT_SECRET"
redirect_uri == "REDIRECT_URI"
auth_url == "https://twitter.com/i/oauth2/authorize"
token_url == "https://api.twitter.com/2/oauth2/token"
scopes == <<"tweet.read", "users.read", "tweet.write", "offline.access">>

(***************************************************************************)
(* Text is a sequence of character codes, binary data a sequence of bytes. *)
(* A 32-bit word is the pair <<high 16 bits, low 16 bits>>.                *)
(***************************************************************************)
Pow2(n) == 2 ^ n

\* bitwise AND of two 4-bit numbers
AndNibble ==
    [a \in 0..15 |-> [b \in 0..15 |->
        ((a % 2) * (b % 2))
        + 2 * (((a \div 2) % 2) * ((b \div 2) % 2))
        + 4 * (((a \div 4) % 2) * ((b \div 4) % 2))
        + 8 * ((a \div 8) * (b \div 8))]]

And16(a, b) ==
    4096 * AndNibble[a \div 4096][b \div 4096]
    + 256 * AndNibble[(a \div 256) % 16][(b \div 256) % 16]
    + 16 * AndNibble[(a \div 16) % 16][(b \div 16) % 16]
    + AndNibble[a % 16][b % 16]

Xor16(a, b) == a + b - 2 * And16(a, b)

WordAnd(x, y) == <<And16(x[1], y[1]), And16(x[2], y[2])>>

WordXor(x, y) == <<Xor16(x[1], y[1]), Xor16(x[2], y[2])>>

WordNot(x) == <<65535 - x[1], 65535 - x[2]>>

\* addition modulo 2^32
WordAdd(x, y) ==
    LET lo == x[2] + y[2]
    IN  <<(x[1] + y[1] + (lo \div 65536)) % 65536, lo % 65536>>

\* rotate right by n, 0 <= n < 32
Rotr(x, n) ==
    LET y == IF n >= 16 THEN <<x[2], x[1]>> ELSE x
        m == n % 16
    IN  <<(y[1] \div Pow2(m)) + (y[2] % Pow2(m)) * Pow2(16 - m),
          (y[2] \div Pow2(m)) + (y[1] % Pow2(m)) * Pow2(16 - m)>>

\* shift right by n, 0 <= n < 16
Shr(x, n) ==
    <<x[1] \div Pow2(n), (x[2] \div Pow2(n)) + (x[1] % Pow2(n)) * Pow2(16 - n)>>

\* SHA-256 (FIPS 180-4): the round constants and the initial hash value
SHA256_K == <<
    <<17034, 12184>>, <<28983, 17553>>, <<46528, 64463>>, <<59829, 56229>>,
    <<14678, 49755>>, <<23025, 4593>>, <<37439, 33444>>, <<43804, 24277>>,
    <<55303, 43672>>, <<4739, 23297>>, <<9265, 34238>>, <<21772, 32195>>,
    <<29374, 23924>>, <<32990, 45566>>, <<39900, 1703>>, <<49563, 61812>>,
    <<58523, 27073>>, <<61374, 18310>>, <<4033, 40390>>, <<9228, 41420>>,
    <<11753, 11375>>, <<19060, 33962>>, <<23728, 43484>>, <<30457, 35034>>,
    <<38974, 20818>>, <<43057, 50797>>, <<45059, 10184>>, <<48985, 32711>>,
    <<50912, 3059>>, <<54695, 37191>>, <<1738, 25425>>, <<5161, 10599>>,
    <<10167, 2693>>, <<11803, 8504>>, <<19756, 28156>>, <<21304, 3347>>,
    <<25866, 29524>>, <<30314, 2747>>, <<33218, 51502>>, <<37490, 11397>>,
    <<41663, 59553>>, <<43034, 26187>>, <<49739, 35696>>, <<51052, 20899>>,
    <<53650, 59417>>, <<54937, 1572>>, <<62478, 13701>>, <<4202, 41072>>,
    <<6564, 49430>>, <<7735, 27656>>, <<10056, 30540>>, <<13488, 48309>>,
    <<14620, 3251>>, <<20184, 43594>>, <<23452, 51791>>, <<26670, 28659>>,
    <<29839, 33518>>, <<30885, 25455>>, <<33992, 30740>>, <<36039, 520>>,
    <<37054, 65530>>, <<42064, 27883>>, <<48889, 41975>>, <<50801, 30962>> >>

SHA256_H0 == <<
    <<27145, 58983>>, <<47975, 44677>>, <<15470, 62322>>, <<42319, 62778>>,
    <<20750, 21119>>, <<39685, 26764>>, <<8067, 55723>>, <<23520, 52505>> >>

Ch(x, y, z) == WordXor(WordAnd(x, y), WordAnd(WordNot(x), z))

Maj(x, y, z) == WordXor(WordXor(WordAnd(x, y), WordAnd(x, z)), WordAnd(y, z))

BigSigma0(x) == WordXor(WordXor(Rotr(x, 2), Rotr(x, 13)), Rotr(x, 22))

BigSigma1(x) == WordXor(WordXor(Rotr(x, 6), Rotr(x, 11)), Rotr(x, 25))

SmallSigma0(x) == WordXor(WordXor(Rotr(x, 7), Rotr(x, 18)), Shr(x, 3))

SmallSigma1(x) == WordXor(WordXor(Rotr(x, 17), Rotr(x, 19)), Shr(x, 10))

\* the message with the 1 bit, the zero bytes and the 64-bit length appended
SHA256_Pad(msg) ==
    LET n == Len(msg)
        zeros == (119 - (n % 64)) % 64
        bits == 8 * n
    IN  msg \o <<128>> \o [i \in 1..zeros |-> 0]
            \o <<0, 0, 0, 0, bits \div 16777216, (bits \div 65536) % 256,
                 (bits \div 256) % 256, bits % 256>>

\* the 16 big-endian words of block number b (from 0) of the padded message
SHA256_Block(padded, b) ==
    [t \in 1..16 |->
        LET o == 64 * b + 4 * (t - 1)
        IN  <<256 * padded[o + 1] + padded[o + 2], 256 * padded[o + 3] + padded[o + 4]>>]

RECURSIVE SHA256_Schedule(_)
SHA256_Schedule(w) ==
    IF Len(w) = 64 THEN w
    ELSE LET t == Len(w) + 1
             next == WordAdd(WordAdd(SmallSigma1(w[t - 2]), w[t - 7]),
                             WordAdd(SmallSigma0(w[t - 15]), w[t - 16]))
         IN  SHA256_Schedule(Append(w, next))

RECURSIVE SHA256_Rounds(_, _, _)
SHA256_Rounds(v, w, t) ==
    IF t > 64 THEN v
    ELSE LET t1 == WordAdd(WordAdd(WordAdd(v[8], BigSigma1(v[5])), Ch(v[5], v[6], v[7])),
                           WordAdd(SHA256_K[t], w[t]))
             t2 == WordAdd(BigSigma0(v[1]), Maj(v[1], v[2], v[3]))
             next == <<WordAdd(t1, t2), v[1], v[2], v[3],
                       WordAdd(v[4], t1), v[5], v[6], v[7]>>
         IN  IF Len(next) = 8 THEN SHA256_Rounds(next, w, t + 1) ELSE next

RECURSIVE SHA256_Blocks(_, _, _)
SHA256_Blocks(h, padded, b) ==
    IF 64 * b >= Len(padded) THEN h
    ELSE LET v == SHA256_Rounds(h, SHA256_Schedule(SHA256_Block(padded, b)), 1)
             next == [i \in 1..8 |-> WordAdd(h[i], v[i])]
         IN  IF Len(next) = 8 THEN SHA256_Blocks(next, padded, b + 1) ELSE next

\* hashlib.sha256(msg).digest(): 32 bytes
SHA256(msg) ==
    LET h == SHA256_Blocks(SHA256_H0, SHA256_Pad(msg), 0)
    IN  [i \in 1..32 |->
            LET half == h[((i - 1) \div 4) + 1][(((i - 1) % 4) \div 2) + 1]
            IN  IF i % 2 = 1 THEN half \div 256 ELSE half % 256]

\* character number i (from 0) of the URL-safe base64 alphabet
B64UrlChar(i) ==
    IF i < 26 THEN 65 + i
    ELSE IF i < 52 THEN 97 + (i - 26)
    ELSE IF i < 62 THEN 48 + (i - 52)
    ELSE IF i = 62 THEN 45 ELSE 95

\* the padding character "="
PadChar == 61

\* base64.urlsafe_b64encode: groups of three bytes give four characters, a last
\* group of one or two bytes is filled up with "="
urlsafe_b64encode(data) ==
    LET n == Len(data)
        byte(i) == IF i <= n THEN data[i] ELSE 0
    IN  [j \in 1..(4 * ((n + 2) \div 3)) |->
            LET q == (j - 1) \div 4
                k == (j - 1) % 4
                b0 == byte(3 * q + 1)
                b1 == byte(3 * q + 2)
                b2 == byte(3 * q + 3)
            IN  IF k = 0 THEN B64UrlChar(b0 \div 4)
                ELSE IF k = 1 THEN B64UrlChar((b0 % 4) * 16 + (b1 \div 16))
                ELSE IF k = 2 THEN
                    IF 3 * q + 2 > n THEN PadChar
                    ELSE B64UrlChar((b1 % 16) * 4 + (b2 \div 64))
                ELSE IF 3 * q + 3 > n THEN PadChar ELSE B64UrlChar(b2 % 64)]

\* a character of [a-zA-Z0-9]
IsAlnum(c) == (c >= 48 /\ c <= 57) \/ (c >= 65 /\ c <= 90) \/ (c >= 97 /\ c <= 122)

\* re.sub("[^a-zA-Z0-9]+", "", text)
StripNonAlnum(text) == SelectSeq(text, IsAlnum)

\* text.replace("=", "")
IsNotPad(c) == c # PadChar

RemovePad(text) == SelectSeq(text, IsNotPad)

\* text.encode("utf-8"), for characters up to U+FFFF
RECURSIVE Utf8Encode(_)
Utf8Encode(text) ==
    IF text = <<>> THEN <<>>
    ELSE LET c == Head(text)
             first == IF c < 128 THEN <<c>>
                      ELSE IF c < 2048 THEN <<192 + (c \div 64), 128 + (c % 64)>>
                      ELSE <<224 + (c \div 4096), 128 + ((c \div 64) % 64), 128 + (c % 64)>>
         IN  first \o Utf8Encode(Tail(text))

\* data.decode("utf-8"), for sequences of up to three bytes
RECURSIVE Utf8Decode(_)
Utf8Decode(data) ==
    IF data = <<>> THEN <<>>
    ELSE LET b == Head(data)
             n == IF b < 128 THEN 1 ELSE IF b < 224 THEN 2 ELSE 3
             c == IF n = 1 THEN b
                  ELSE IF n = 2 THEN (b % 32) * 64 + (data[2] % 64)
                  ELSE (b % 16) * 4096 + (data[2] % 64) * 64 + (data[3] % 64)
         IN  <<c>> \o Utf8Decode(SubSeq(data, n + 1, Len(data)))

\* the number of random bytes the verifier is made from
VerifierBytes == 30

\* outcome number k of os.urandom(30)
URandom(k) ==
    [i \in 1..VerifierBytes |-> (k * (i + 7) * (i + 13) * 31 + i * 97) % 256]

\* the module-level computation of code_verifier
MakeVerifier(random) == StripNonAlnum(Utf8Decode(urlsafe_b64encode(random)))

\* the computation of code_challenge without the removal of "="
MakeChallenge_KeepsPadding(verifier) ==
    Utf8Decode(urlsafe_b64encode(SHA256(Utf8Encode(verifier))))

\* the module-level computation of code_challenge
MakeChallenge(verifier) ==
    RemovePad(Utf8Decode(urlsafe_b64encode(SHA256(Utf8Encode(verifier)))))

VARIABLES
    session,        \* session[s]: the Flask session dictionary of browser s
    twitter,        \* the module global `twitter`: EmptyDict while the name is unbound
    code_verifier,  \* the module global code_verifier, as character codes
    code_challenge, \* the module global code_challenge, as character codes
    response,       \* the last request handled and the answer it got
    solo            \* the process as it would be had only browser Observed sent its
                    \* requests (kept by SpecNI, to compare what Observed is answered)

vars == <<session, twitter, code_verifier, code_challenge, response, solo>>

(***************************************************************************)
(* The process: the sessions, the global OAuth client and the last         *)
(* response, as one record the handlers take and return.                   *)
(***************************************************************************)
Proc == [session |-> session, twitter |-> twitter, response |-> response]

\* the response before any request was handled
NoResponse ==
    [session |-> 0, route |-> "", args |-> EmptyDict, status |-> "none", body |-> "",
     url |-> EmptyDict, exchange |-> <<>>, api |-> <<>>, value |-> ""]

\* a request of browser s for route with query parameters args
Request(s, route, args) == [session |-> s, route |-> route, args |-> args]

\* render_template(template, ...) as the answer to request req
Render(req, template, value, api) ==
    [session |-> req.session, route |-> req.route, args |-> req.args,
     status |-> "render", body |-> template,
     url |-> EmptyDict, exchange |-> <<>>, api |-> api, value |-> value]

\* redirect(location) as the answer to request req
Redirect(req, location, url, exchange) ==
    [session |-> req.session, route |-> req.route, args |-> req.args,
     status |-> "redirect", body |-> location,
     url |-> url, exchange |-> exchange, api |-> <<>>, value |-> ""]

\* an exception that leaves the handler: request req ends in a server error
Raise(req, exception, exchange, api) ==
    [session |-> req.session, route |-> req.route, args |-> req.args,
     status |-> "error", body |-> exception,
     url |-> EmptyDict, exchange |-> exchange, api |-> api, value |-> ""]

\* OAuth2Session(client_id, redirect_uri=redirect_uri, scope=scopes)
make_token ==
    [client_id |-> client_id, redirect_uri |-> redirect_uri, scope |-> scopes]

\* twitter.authorization_url(auth_url, code_challenge=..., code_challenge_method="S256"),
\* where generate_token() returns st: the client keeps st, and the URL carries it
authorization_url(client, st) ==
    [client |-> DictSet(client, "state", st),
     state |-> st,
     url |-> [response_type |-> "code", client_id |-> client.client_id,
              redirect_uri |-> client.redirect_uri, scope |-> client.scope,
              state |-> st, code_challenge |-> code_challenge,
              code_challenge_method |-> "S256"]]

\* the token request, presenting the challenge where the verifier belongs
TokenRequest_PresentsChallenge(client, code) ==
    [url |-> token_url, grant_type |-> "authorization_code",
     client_id |-> client.client_id, client_secret |-> client_secret,
     code_verifier |-> code_challenge, code |-> code,
     redirect_uri |-> client.redirect_uri]

\* the request fetch_token posts to the token endpoint
TokenRequest(client, code) ==
    [url |-> token_url, grant_type |-> "authorization_code",
     client_id |-> client.client_id, client_secret |-> client_secret,
     code_verifier |-> code_verifier, code |-> code,
     redirect_uri |-> client.redirect_uri]

\* the token structure fetch_token returns for the token endpoint's answer
Token(answer) ==
    [access_token |-> answer.access_token, token_type |-> "bearer", scope |-> scopes,
     refresh_token |-> "refresh"]

\* requests.get of the profile with the bearer token
get_user_id(token) ==
    [method |-> "GET", url |-> "https://api.twitter.com/2/users/me",
     authorization |-> token.access_token]

\* requests.post of a tweet with the bearer token
post_tweet(token) ==
    [method |-> "POST", url |-> "https://api.twitter.com/2/tweets",
     authorization |-> token.access_token]

\* homepage, logging the browser out when the provider's API answers an error
homepage_ForgetsTokenOnError(p, s, answer) ==
    LET req == Request(s, "/", EmptyDict)
    IN  IF DictHas(p.session[s], "oauth_token") THEN
            LET token == p.session[s]["oauth_token"]
                call == get_user_id(token)
            IN  IF answer = "http_error_not_json"
                THEN [p EXCEPT !.response = Raise(req, "JSONDecodeError", <<>>, <<call>>)]
                ELSE IF answer = "ok"
                THEN [p EXCEPT !.response = Render(req, "homepage.html", "id", <<call>>)]
                ELSE [p EXCEPT !.session[s] = DictPop(p.session[s], "oauth_token"),
                               !.response =
                                   Render(req, "homepage.html", "No id found", <<call>>)]
        ELSE [p EXCEPT !.response = Render(req, "index.html", "", <<>>)]

\* GET / by browser s, the provider's API answering `answer` if it is called
homepage(p, s, answer) ==
    LET req == Request(s, "/", EmptyDict)
    IN  IF DictHas(p.session[s], "oauth_token") THEN
            LET token == p.session[s]["oauth_token"]
                call == get_user_id(token)
            IN  IF answer = "http_error_not_json"
                THEN [p EXCEPT !.response = Raise(req, "JSONDecodeError", <<>>, <<call>>)]
                ELSE [p EXCEPT !.response =
                        Render(req, "homepage.html",
                               IF answer = "ok" THEN "id" ELSE "No id found", <<call>>)]
        ELSE [p EXCEPT !.response = Render(req, "index.html", "", <<>>)]

\* start, sending a logged-in browser on to the target it asked for
start_RedirectsToTarget(p, s, args, st) ==
    LET req == Request(s, "/start", args)
        redirect_url == DictGet(args, "redirect_url", "/")
    IN  IF DictHas(p.session[s], "oauth_token") THEN
            [p EXCEPT !.response = Redirect(req, redirect_url, EmptyDict, <<>>)]
        ELSE
            LET stored == DictSet(p.session[s], "redirect_url", redirect_url)
                authz == authorization_url(make_token, st)
            IN  [session |-> [p.session EXCEPT
                                ![s] = DictSet(stored, "oauth_state", authz.state)],
                 twitter |-> authz.client,
                 response |-> Redirect(req, auth_url, authz.url, <<>>)]

\* start, storing the target before it looks whether the browser is logged in
start_StoresTargetFirst(p, s, args, st) ==
    LET req == Request(s, "/start", args)
        redirect_url == DictGet(args, "redirect_url", "/")
        stored == DictSet(p.session[s], "redirect_url", redirect_url)
    IN  IF DictHas(p.session[s], "oauth_token") THEN
            [p EXCEPT !.session[s] = stored,
                      !.response = Redirect(req, "/", EmptyDict, <<>>)]
        ELSE
            LET authz == authorization_url(make_token, st)
            IN  [session |-> [p.session EXCEPT
                                ![s] = DictSet(stored, "oauth_state", authz.state)],
                 twitter |-> authz.client,
                 response |-> Redirect(req, auth_url, authz.url, <<>>)]

\* start, storing the root whatever target was asked for
start_IgnoresTarget(p, s, args, st) ==
    LET req == Request(s, "/start", args)
    IN  IF DictHas(p.session[s], "oauth_token") THEN
            [p EXCEPT !.response = Redirect(req, "/", EmptyDict, <<>>)]
        ELSE
            LET stored == DictSet(p.session[s], "redirect_url", "/")
                authz == authorization_url(make_token, st)
            IN  [session |-> [p.session EXCEPT
                                ![s] = DictSet(stored, "oauth_state", authz.state)],
                 twitter |-> authz.client,
                 response |-> Redirect(req, auth_url, authz.url, <<>>)]

\* start, storing the state of the client that was current before this request
start_StoresPreviousState(p, s, args, st) ==
    LET req == Request(s, "/start", args)
    IN  IF DictHas(p.session[s], "oauth_token") THEN
            [p EXCEPT !.response = Redirect(req, "/", EmptyDict, <<>>)]
        ELSE
            LET redirect_url == DictGet(args, "redirect_url", "/")
                stored == DictSet(p.session[s], "redirect_url", redirect_url)
                authz == authorization_url(make_token, st)
                state == DictGet(p.twitter, "state", authz.state)
            IN  [session |-> [p.session EXCEPT
                                ![s] = DictSet(stored, "oauth_state", state)],
                 twitter |-> authz.client,
                 response |-> Redirect(req, auth_url, authz.url, <<>>)]

\* GET /start by browser s with query parameters args, generate_token() giving st
start(p, s, args, st) ==
    LET req == Request(s, "/start", args)
    IN  IF DictHas(p.session[s], "oauth_token") THEN
            [p EXCEPT !.response = Redirect(req, "/", EmptyDict, <<>>)]
        ELSE
            LET redirect_url == DictGet(args, "redirect_url", "/")
                stored == DictSet(p.session[s], "redirect_url", redirect_url)
                authz == authorization_url(make_token, st)
            IN  [session |-> [p.session EXCEPT
                                ![s] = DictSet(stored, "oauth_state", authz.state)],
                 twitter |-> authz.client,
                 response |-> Redirect(req, auth_url, authz.url, <<>>)]

\* callback, storing what the token endpoint answered before looking at it
callback_StoresAnswerFirst(p, s, args, answer) ==
    LET req == Request(s, "/oauth/callback", args)
    IN  IF p.twitter = EmptyDict THEN
            [p EXCEPT !.response = Raise(req, "NameError", <<>>, <<>>)]
        ELSE IF ~DictHas(args, "code") THEN
            [p EXCEPT !.response = Raise(req, "ValueError", <<>>, <<>>)]
        ELSE
            LET exchange == <<[request |-> TokenRequest(p.twitter, args["code"]),
                               answer |-> answer]>>
                stored == DictSet(p.session[s], "oauth_token", answer)
            IN  IF DictHas(answer, "error") THEN
                    [p EXCEPT !.session[s] = stored,
                              !.response = Raise(req, "OAuth2Error", exchange, <<>>)]
                ELSE
                    [p EXCEPT !.session[s] = DictPop(stored, "redirect_url"),
                              !.response =
                                  Redirect(req, DictGet(stored, "redirect_url", "/"),
                                           EmptyDict, exchange)]

\* callback, never storing the token in the session
callback_DropsToken(p, s, args, answer) ==
    LET req == Request(s, "/oauth/callback", args)
    IN  IF p.twitter = EmptyDict THEN
            [p EXCEPT !.response = Raise(req, "NameError", <<>>, <<>>)]
        ELSE IF ~DictHas(args, "code") THEN
            [p EXCEPT !.response = Raise(req, "ValueError", <<>>, <<>>)]
        ELSE
            LET exchange == <<[request |-> TokenRequest(p.twitter, args["code"]),
                               answer |-> answer]>>
            IN  IF DictHas(answer, "error") THEN
                    [p EXCEPT !.response = Raise(req, "OAuth2Error", exchange, <<>>)]
                ELSE
                    [p EXCEPT !.session[s] = DictPop(p.session[s], "redirect_url"),
                              !.response =
                                  Redirect(req, DictGet(p.session[s], "redirect_url", "/"),
                                           EmptyDict, exchange)]

\* callback, leaving redirect_url in the session
callback_KeepsRedirect(p, s, args, answer) ==
    LET req == Request(s, "/oauth/callback", args)
    IN  IF p.twitter = EmptyDict THEN
            [p EXCEPT !.response = Raise(req, "NameError", <<>>, <<>>)]
        ELSE IF ~DictHas(args, "code") THEN
            [p EXCEPT !.response = Raise(req, "ValueError", <<>>, <<>>)]
        ELSE
            LET exchange == <<[request |-> TokenRequest(p.twitter, args["code"]),
                               answer |-> answer]>>
            IN  IF DictHas(answer, "error") THEN
                    [p EXCEPT !.response = Raise(req, "OAuth2Error", exchange, <<>>)]
                ELSE
                    LET stored == DictSet(p.session[s], "oauth_token", Token(answer))
                    IN  [p EXCEPT !.session[s] = stored,
                                  !.response =
                                      Redirect(req, DictGet(stored, "redirect_url", "/"),
                                               EmptyDict, exchange)]

\* callback, making itself a client when no /start has made one
callback_MakesClient(p, s, args, answer) ==
    LET req == Request(s, "/oauth/callback", args)
        client == IF p.twitter = EmptyDict THEN make_token ELSE p.twitter
    IN  IF ~DictHas(args, "code") THEN
            [p EXCEPT !.response = Raise(req, "ValueError", <<>>, <<>>)]
        ELSE
            LET exchange == <<[request |-> TokenRequest(client, args["code"]),
                               answer |-> answer]>>
            IN  IF DictHas(answer, "error") THEN
                    [p EXCEPT !.response = Raise(req, "OAuth2Error", exchange, <<>>)]
                ELSE
                    LET stored == DictSet(p.session[s], "oauth_token", Token(answer))
                        redirect_url == DictGet(stored, "redirect_url", "/")
                    IN  [p EXCEPT !.session[s] = DictPop(stored, "redirect_url"),
                                  !.response =
                                      Redirect(req, redirect_url, EmptyDict, exchange)]

\* callback, presenting a rejected code to the token endpoint once more
callback_RetriesRejected(p, s, args, answer) ==
    LET req == Request(s, "/oauth/callback", args)
    IN  IF p.twitter = EmptyDict THEN
            [p EXCEPT !.response = Raise(req, "NameError", <<>>, <<>>)]
        ELSE IF ~DictHas(args, "code") THEN
            [p EXCEPT !.response = Raise(req, "ValueError", <<>>, <<>>)]
        ELSE
            LET attempt == [request |-> TokenRequest(p.twitter, args["code"]),
                            answer |-> answer]
            IN  IF DictHas(answer, "error") THEN
                    [p EXCEPT !.response =
                        Raise(req, "OAuth2Error", <<attempt, attempt>>, <<>>)]
                ELSE
                    LET stored == DictSet(p.session[s], "oauth_token", Token(answer))
                        redirect_url == DictGet(stored, "redirect_url", "/")
                    IN  [p EXCEPT !.session[s] = DictPop(stored, "redirect_url"),
                                  !.response =
                                      Redirect(req, redirect_url, EmptyDict, <<attempt>>)]

\* GET /oauth/callback by browser s with query parameters args, the token
\* endpoint answering `answer` if it is asked
callback(p, s, args, answer) ==
    LET req == Request(s, "/oauth/callback", args)
    IN  IF p.twitter = EmptyDict THEN
            [p EXCEPT !.response = Raise(req, "NameError", <<>>, <<>>)]
        ELSE IF ~DictHas(args, "code") THEN
            [p EXCEPT !.response = Raise(req, "ValueError", <<>>, <<>>)]
        ELSE
            LET exchange == <<[request |-> TokenRequest(p.twitter, args["code"]),
                               answer |-> answer]>>
            IN  IF DictHas(answer, "error") THEN
                    [p EXCEPT !.response = Raise(req, "OAuth2Error", exchange, <<>>)]
                ELSE
                    LET stored == DictSet(p.session[s], "oauth_token", Token(answer))
                        redirect_url == DictGet(stored, "redirect_url", "/")
                    IN  [p EXCEPT !.session[s] = DictPop(stored, "redirect_url"),
                                  !.response =
                                      Redirect(req, redirect_url, EmptyDict, exchange)]

\* playground, taking the global client for the sign that somebody is logged in
playground_ChecksGlobalClient(p, s, answer) ==
    LET req == Request(s, "/playground", EmptyDict)
    IN  IF p.twitter # EmptyDict THEN
            LET token == DictGet(p.session[s], "oauth_token", [access_token |-> "None"])
                call == post_tweet(token)
            IN  IF answer = "http_error_not_json"
                THEN [p EXCEPT !.response = Raise(req, "JSONDecodeError", <<>>, <<call>>)]
                ELSE [p EXCEPT !.response =
                        Render(req, "thank-you.html",
                               IF answer = "ok" THEN "text" ELSE "No text found", <<call>>)]
        ELSE [p EXCEPT !.response = Redirect(req, "/", EmptyDict, <<>>)]

\* GET /playground by browser s, the provider's API answering `answer` if it is called
playground(p, s, answer) ==
    LET req == Request(s, "/playground", EmptyDict)
    IN  IF DictHas(p.session[s], "oauth_token") THEN
            LET token == p.session[s]["oauth_token"]
                call == post_tweet(token)
            IN  IF answer = "http_error_not_json"
                THEN [p EXCEPT !.response = Raise(req, "JSONDecodeError", <<>>, <<call>>)]
                ELSE [p EXCEPT !.response =
                        Render(req, "thank-you.html",
                               IF answer = "ok" THEN "text" ELSE "No text found", <<call>>)]
        ELSE [p EXCEPT !.response = Redirect(req, "/", EmptyDict, <<>>)]

(***************************************************************************)
(* Requests.                                                               *)
(***************************************************************************)
\* the query strings of /start and of /oauth/callback
StartArgs == {EmptyDict} \cup {[redirect_url |-> t] : t \in Targets}

CallbackArgs ==
    {EmptyDict}
    \cup {[code |-> c] : c \in Codes}
    \cup {[state |-> st] : st \in StateTokens}
    \cup {[code |-> c, state |-> st] : c \in Codes, st \in StateTokens}

\* the process after a request: p is what the handler returns, q the process
\* of the run in which browser Observed is alone
Handled(p, q) ==
    /\ session' = p.session
    /\ twitter' = p.twitter
    /\ response' = p.response
    /\ solo' = q
    /\ UNCHANGED <<code_verifier, code_challenge>>

Homepage(s, answer) == Handled(homepage(Proc, s, answer), solo)

Start(s, args, st) == Handled(start(Proc, s, args, st), solo)

Callback(s, args, answer) == Handled(callback(Proc, s, args, answer), solo)

Playground(s, answer) == Handled(playground(Proc, s, answer), solo)

\* the process right after the module was loaded
Init ==
    /\ \E k \in Seeds :
        /\ code_verifier = MakeVerifier(URandom(k))
        /\ code_challenge = MakeChallenge(code_verifier)
    /\ session = [s \in Sessions |-> EmptyDict]
    /\ twitter = EmptyDict
    /\ response = NoResponse
    /\ solo = [session |-> [s \in Sessions |-> EmptyDict], twitter |-> EmptyDict,
               response |-> NoResponse]

Next ==
    \/ \E s \in Sessions, answer \in ApiAnswers : Homepage(s, answer)
    \/ \E s \in Sessions, args \in StartArgs, st \in StateTokens : Start(s, args, st)
    \/ \E s \in Sessions, args \in CallbackArgs, answer \in TokenAnswers :
            Callback(s, args, answer)
    \/ \E s \in Sessions, answer \in ApiAnswers : Playground(s, answer)

Spec == Init /\ [][Next]_vars

(***************************************************************************)
(* The same requests, with the run in which only browser Observed sends    *)
(* its requests kept beside: the same handlers get the same inputs there.  *)
(***************************************************************************)
\* the browser whose answers are compared
Observed == CHOOSE s \in Sessions : \A t \in Sessions : s <= t

Alone(s, q) == IF s = Observed THEN q ELSE solo

HomepageNI(s, answer) ==
    Handled(homepage(Proc, s, answer), Alone(s, homepage(solo, s, answer)))

StartNI(s, args, st) ==
    Handled(start(Proc, s, args, st), Alone(s, start(solo, s, args, st)))

CallbackNI(s, args, answer) ==
    Handled(callback(Proc, s, args, answer), Alone(s, callback(solo, s, args, answer)))

PlaygroundNI(s, answer) ==
    Handled(playground(Proc, s, answer), Alone(s, playground(solo, s, answer)))

NextNI ==
    \/ \E s \in Sessions, answer \in ApiAnswers : HomepageNI(s, answer)
    \/ \E s \in Sessions, args \in StartArgs, st \in StateTokens : StartNI(s, args, st)
    \/ \E s \in Sessions, args \in CallbackArgs, answer \in TokenAnswers :
            CallbackNI(s, args, answer)
    \/ \E s \in Sessions, answer \in ApiAnswers : PlaygroundNI(s, answer)

SpecNI == Init /\ [][NextNI]_vars

(***************************************************************************)
(* Properties.  `response` is the last request handled and its answer, so  *)
(* a state predicate on it speaks of the request just handled, and a       *)
(* primed one of the request a step handles.                               *)
(***************************************************************************)
\* the session of the browser that sent the last request
LastSession == session[response.session]

CallbackDone == response.route = "/oauth/callback"

CallbackAccepted == CallbackDone /\ response.status = "redirect"

CallbackRejected == CallbackDone /\ response.status = "error"

\* the state parameter of a callback equals the session's stored oauth_state
StateMatches(args, sess) ==
    /\ DictHas(args, "state")
    /\ DictHas(sess, "oauth_state")
    /\ args["state"] = sess["oauth_state"]

\* the state parameter and the stored oauth_state differ, a missing one counting
\* as Python's None
StateDiffers(args, sess) ==
    DictGet(args, "state", "None") # DictGet(sess, "oauth_state", "None")

\* what a session holds under a key: <<value>>, or <<>> when the key is missing
Held(sess, k) == IF DictHas(sess, k) THEN <<sess[k]>> ELSE <<>>

\* C1: a callback whose state parameter differs from the session's stored
\* oauth_state is rejected, whatever the token endpoint says about the code.
C1_MismatchRejected ==
    (CallbackDone /\ StateDiffers(response.args, LastSession)) => CallbackRejected

\* C2: a callback on a session that holds no oauth_state fails, whatever this
\* and other sessions did before.
C2_NoPendingStateRejected ==
    (CallbackDone /\ ~DictHas(LastSession, "oauth_state")) => CallbackRejected

AnsweredAsAuthenticated ==
    /\ response.route = "/" =>
        /\ response.body \in {"homepage.html", "JSONDecodeError"}
        /\ response.api = <<get_user_id(LastSession["oauth_token"])>>
    /\ response.route = "/start" =>
        /\ response.status = "redirect"
        /\ response.body = "/"
    /\ response.route = "/playground" =>
        /\ response.body \in {"thank-you.html", "JSONDecodeError"}
        /\ response.api = <<post_tweet(LastSession["oauth_token"])>>

\* C4: a callback with the session's state and a code the token endpoint
\* accepts leaves the session with the token issued, and from then on the
\* session keeps a token and every request on it is answered as logged in.
C4_AcceptedCallbackAuthenticates ==
    /\ [](  /\ (/\ CallbackDone
                /\ StateMatches(response.args, LastSession)
                /\ DictHas(response.args, "code"))
                => /\ Len(response.exchange) = 1
                   /\ DictHas(response.exchange[1].answer, "access_token")
                        => /\ CallbackAccepted
                           /\ DictHas(LastSession, "oauth_token")
                           /\ LastSession["oauth_token"].access_token
                                = response.exchange[1].answer.access_token
            /\ (response.status # "none" /\ DictHas(LastSession, "oauth_token"))
                => AnsweredAsAuthenticated)
    /\ [][\A s \in Sessions :
            DictHas(session[s], "oauth_token") => DictHas(session'[s], "oauth_token")]_vars

\* a callback with the session's state and an accepted code was just handled
C4_Witness ==
    /\ CallbackAccepted
    /\ StateMatches(response.args, LastSession)
    /\ DictHas(LastSession, "oauth_token")

\* C5 as stated: /start on a session that holds a token redirects to the
\* target asked for, the root when none is given.
C5_ShortCircuitToTarget ==
    (response.route = "/start" /\ DictHas(LastSession, "oauth_token"))
        => /\ response.status = "redirect"
           /\ response.body = DictGet(response.args, "redirect_url", "/")

\* C5 as amended: /start on a session that holds a token redirects to the
\* root, whatever redirect_url asks for.
C5_ShortCircuitToRoot ==
    (response.route = "/start" /\ DictHas(LastSession, "oauth_token"))
        => /\ response.status = "redirect"
           /\ response.body = "/"

\* /start with a redirect_url was just handled on a session that holds a token
C5_Witness ==
    /\ response.route = "/start"
    /\ DictHas(LastSession, "oauth_token")
    /\ DictHas(response.args, "redirect_url")
    /\ response.args["redirect_url"] # "/"

\* C6: /start on a session that holds a token changes no session and not the
\* global client, builds no authorization URL and contacts nobody.
C6_ShortCircuitNoEffect ==
    [][(response'.route = "/start"
            /\ DictHas(session[response'.session], "oauth_token"))
        => /\ session' = session
           /\ twitter' = twitter
           /\ response'.url = EmptyDict
           /\ response'.exchange = <<>>
           /\ response'.api = <<>>]_vars

\* /start asking for a target was just handled on a session that holds a token,
\* while another session's flow is pending on the global client
C6_Witness ==
    /\ response.route = "/start"
    /\ DictHas(response.args, "redirect_url")
    /\ DictHas(LastSession, "oauth_token")
    /\ twitter # EmptyDict
    /\ \E s \in Sessions : s # response.session /\ DictHas(session[s], "redirect_url")

\* C7: after a successful callback the session holds no redirect_url, and a
\* session that holds a token never holds one again.
C7_RedirectConsumed ==
    /\ CallbackAccepted => ~DictHas(LastSession, "redirect_url")
    /\ \A s \in Sessions :
        DictHas(session[s], "oauth_token") => ~DictHas(session[s], "redirect_url")

\* a successful callback has just redirected to a stored target
C7_Witness ==
    /\ CallbackAccepted
    /\ response.body # "/"
    /\ ~DictHas(LastSession, "redirect_url")

\* C8: /start on a session without token stores the target asked for (the root
\* when none is given); a successful callback redirects to the stored target
\* (the root when none is stored); and nothing else changes a stored target.
C8_RedirectsToStoredTarget ==
    [][ /\ (response'.route = "/start"
                /\ ~DictHas(session[response'.session], "oauth_token"))
            => Held(session'[response'.session], "redirect_url")
                = <<DictGet(response'.args, "redirect_url", "/")>>
        /\ (response'.route = "/oauth/callback" /\ response'.status = "redirect")
            => response'.body = DictGet(session[response'.session], "redirect_url", "/")
        /\ \A s \in Sessions :
            Held(session'[s], "redirect_url") # Held(session[s], "redirect_url")
                => /\ response'.session = s
                   /\ \/ response'.route = "/start" /\ response'.body = auth_url
                      \/ response'.route = "/oauth/callback" /\ response'.status = "redirect"
      ]_vars

\* a successful callback with the session's state has just redirected to the
\* target the flow was started with
C8_Witness ==
    /\ CallbackAccepted
    /\ StateMatches(response.args, LastSession)
    /\ response.body = "/playground"

\* base64url without padding (RFC 4648 section 5, RFC 7636 appendix A): character
\* number j is the alphabet letter of bits 6j .. 6j+5 of the data, zero bits
\* filling the last letter
Base64UrlNoPad(data) ==
    LET n == Len(data)
        byte(i) == IF i <= n THEN data[i] ELSE 0
    IN  [j \in 1..((8 * n + 5) \div 6) |->
            LET bit == 6 * (j - 1)
                i == (bit \div 8) + 1
                pair == 256 * byte(i) + byte(i + 1)
            IN  B64UrlChar((pair \div Pow2(10 - (bit % 8))) % 64)]

\* the verifiers the generator can produce, and for each the challenge PKCE
\* requires: the unpadded base64url of its SHA-256
GeneratedVerifiers == {MakeVerifier(URandom(k)) : k \in Seeds}

RequiredChallenge ==
    [v \in GeneratedVerifiers |-> Base64UrlNoPad(SHA256(Utf8Encode(v)))]

\* C9: in every state the held code_challenge is the unpadded base64url of the
\* SHA-256 of the held code_verifier, whatever requests were handled.
C9_ChallengeDerivedFromVerifier ==
    /\ code_verifier \in GeneratedVerifiers
    /\ code_challenge = RequiredChallenge[code_verifier]

\* requests were handled in a process whose verifier lost characters to the
\* stripping and whose digest encoding ended in padding
C9_Witness ==
    /\ CallbackAccepted
    /\ Len(code_verifier) < 4 * ((VerifierBytes + 2) \div 3)
    /\ Len(code_challenge) < Len(urlsafe_b64encode(SHA256(Utf8Encode(code_verifier))))

\* C10: what a callback of browser Observed is answered does not depend on the
\* requests other browsers sent: it is the answer of the run in which Observed
\* sent the same requests alone, with the same provider answers.
C10_CallbackOutcomeOwnSessionOnly ==
    (CallbackDone /\ response.session = Observed)
        => (response.status = solo.response.status)

\* C11: the client a callback exchanges the code with is the one the latest
\* /start of the same session created: the state that client generated is the
\* oauth_state the session stores.  (The global client is not touched by
\* callback, so after the request `twitter` is still the client it used.)
C11_CallbackUsesOwnClient ==
    (CallbackDone /\ response.exchange # <<>>)
        => Held(LastSession, "oauth_state") = Held(twitter, "state")

\* C12: the PKCE pair never changes while the process runs; every
\* authorization URL /start builds carries the held code_challenge, every token
\* exchange a callback makes presents the held code_verifier, and the challenge
\* is the one PKCE derives from that verifier.
C12_PkcePairGlobalAndFixed ==
    /\ [](  /\ response.url # EmptyDict
                => response.url.code_challenge = code_challenge
            /\ \A i \in 1..Len(response.exchange) :
                /\ response.exchange[i].request.code_verifier = code_verifier
                /\ RequiredChallenge[response.exchange[i].request.code_verifier]
                    = code_challenge)
    /\ [][code_verifier' = code_verifier /\ code_challenge' = code_challenge]_vars

\* a callback has exchanged a code after two sessions each began a flow
C12_Witness ==
    /\ CallbackDone
    /\ Len(response.exchange) = 1
    /\ \A s \in Sessions : DictHas(session[s], "oauth_state")
    /\ \E s, t \in Sessions : session[s]["oauth_state"] # session[t]["oauth_state"]

\* C13: a callback whose exchange the token endpoint rejects ends in an error
\* after that one attempt: the code was presented once, and the request is not
\* answered with a redirect.
C13_RejectionFailsWithoutRetry ==
    (CallbackDone /\ \E i \in 1..Len(response.exchange) :
                        DictHas(response.exchange[i].answer, "error"))
        => /\ Len(response.exchange) = 1
           /\ response.status = "error"
           /\ response.body = "OAuth2Error"

\* the token endpoint has just rejected the code of a callback
C13_Witness ==
    /\ CallbackDone
    /\ Len(response.exchange) = 1
    /\ response.exchange[1].answer = [error |-> "invalid_grant"]
    /\ response.exchange[1].request.code \in Codes

\* C14: when the provider's API answers the call of / or /playground with an
\* error, the request ends in an error, not in a rendered page or a redirect.
C14_ApiFailureIsVisible ==
    [][\A s \in Sessions, answer \in ApiAnswers \ {"ok"} :
        (/\ DictHas(session[s], "oauth_token")
         /\ Homepage(s, answer) \/ Playground(s, answer))
            => response'.status = "error"]_vars

\* C15: a request on a session without oauth_token calls the provider's API
\* never: /playground redirects to the root and / renders the login prompt;
\* and every API call carries the access token the requesting session stores.
C15_ApiCallsOnlyWithSessionToken ==
    /\ (response.status # "none" /\ ~DictHas(LastSession, "oauth_token"))
        => /\ response.api = <<>>
           /\ response.route = "/playground"
                => response.status = "redirect" /\ response.body = "/"
           /\ response.route = "/"
                => response.status = "render" /\ response.body = "index.html"
    /\ \A i \in 1..Len(response.api) :
        /\ DictHas(LastSession, "oauth_token")
        /\ response.api[i].authorization = LastSession["oauth_token"].access_token

\* /playground or / was just asked for by a browser that is not logged in,
\* while another browser is
C15_Witness ==
    /\ response.route \in {"/playground", "/"}
    /\ ~DictHas(LastSession, "oauth_token")
    /\ \E s \in Sessions : DictHas(session[s], "oauth_token")

\* C16: /start on a session that began a flow and holds no token replaces the
\* stored oauth_state and redirect_url by those of the new attempt, so the
\* session always stores the latest attempt's values; and a callback that
\* succeeds is judged and redirected by them: it carries the stored state and
\* goes to the stored target.
C16_LatestAttemptOnly ==
    [][ /\ (/\ response'.route = "/start"
            /\ DictHas(session[response'.session], "oauth_state")
            /\ ~DictHas(session[response'.session], "oauth_token"))
            => /\ Held(session'[response'.session], "oauth_state")
                    = Held(response'.url, "state")
               /\ Held(session'[response'.session], "redirect_url")
                    = <<DictGet(response'.args, "redirect_url", "/")>>
        /\ (/\ response'.route = "/oauth/callback"
            /\ response'.status = "redirect"
            /\ DictHas(session[response'.session], "oauth_state"))
            => /\ response'.body
                    = DictGet(session[response'.session], "redirect_url", "/")
               /\ Held(response'.args, "state")
                    = Held(session[response'.session], "oauth_state")
      ]_vars

\* C17: /start on a session without oauth_token redirects to the authorization
\* endpoint with a URL whose state is the oauth_state the session now stores,
\* and which carries the client identifier, the redirect URI, the scopes, the
\* held code_challenge and the method S256.
C17_StartBuildsAuthorizationUrl ==
    (response.route = "/start" /\ ~DictHas(LastSession, "oauth_token"))
        => /\ response.status = "redirect"
           /\ response.body = auth_url
           /\ Held(LastSession, "oauth_state") = Held(response.url, "state")
           /\ Held(response.url, "state") # <<>>
           /\ Held(response.url, "client_id") = <<client_id>>
           /\ Held(response.url, "redirect_uri") = <<redirect_uri>>
           /\ Held(response.url, "scope") = <<scopes>>
           /\ Held(response.url, "code_challenge") = <<code_challenge>>
           /\ Held(response.url, "code_challenge_method") = <<"S256">>
           /\ Held(response.url, "response_type") = <<"code">>

\* /start has just begun a flow with a target, after another session began a
\* flow with another state
C17_Witness ==
    /\ response.route = "/start"
    /\ response.body = auth_url
    /\ DictHas(response.args, "redirect_url")
    /\ \E s \in Sessions :
        /\ s # response.session
        /\ DictHas(session[s], "oauth_state")
        /\ session[s]["oauth_state"] # LastSession["oauth_state"]

\* C18: a step changes a session's oauth_token only if it is a callback of that
\* session that the token endpoint answered with a token, and then the session
\* holds the token issued; no step removes a token; and /, /start and
\* /playground leave every session's oauth_token as it was.
C18_TokenWrittenOnlyByAcceptedCallback ==
    [][\A s \in Sessions :
        /\ Held(session'[s], "oauth_token") # Held(session[s], "oauth_token")
            => /\ response'.session = s
               /\ response'.route = "/oauth/callback"
               /\ response'.status = "redirect"
               /\ Len(response'.exchange) = 1
               /\ DictHas(response'.exchange[1].answer, "access_token")
               /\ Held(session'[s], "oauth_token")
                    = <<Token(response'.exchange[1].answer)>>
        /\ Held(session[s], "oauth_token") # <<>>
            => Held(session'[s], "oauth_token") # <<>>
        /\ response'.route \in {"/", "/start", "/playground"}
            => Held(session'[s], "oauth_token") = Held(session[s], "oauth_token")
      ]_vars

\* a logged-in browser was just answered by / or /playground after the
\* provider's API failed, and still holds its token
C18_Witness ==
    /\ response.route \in {"/", "/playground"}
    /\ response.api # <<>>
    /\ response.value \notin {"id", "text"}
    /\ DictHas(LastSession, "oauth_token")

\* C19: a callback handled while the global client does not exist (no /start
\* has run in the process) ends in an error without a token request, and leaves
\* the sessions and the global client as they were.
C19_CallbackBeforeAnyStartFails ==
    [][(response'.route = "/oauth/callback" /\ twitter = EmptyDict)
        => /\ response'.status = "error"
           /\ response'.body = "NameError"
           /\ response'.exchange = <<>>
           /\ \A k \in {"oauth_token", "oauth_state", "redirect_url"} :
                Held(session'[response'.session], k)
                    = Held(session[response'.session], k)
           /\ session' = session
           /\ twitter' = EmptyDict]_vars

\* a callback carrying a code and a state was just answered in a process where
\* no /start has run
C19_Witness ==
    /\ CallbackDone
    /\ twitter = EmptyDict
    /\ DictHas(response.args, "code")
    /\ DictHas(response.args, "state")

====
